---- MODULE Spec2Model ----
(***************************************************************************)
(* Session lifecycle and coordination layer of ryvencore:                  *)
(*   src/src/Session.py            Session (scripts, nodes, load/serialize) *)
(*   src/ryvencore/addons/AddOn.py AddOn (get_state / set_state)            *)
(* Script, SessionThreadingBridge and the addon registry of the session    *)
(* are not part of the sources at hand; they are modelled from their       *)
(* documented contract and marked as such where they are defined.          *)
(***************************************************************************)
EXTENDS Integers, Sequences, FiniteSets, TLC

\* ------------------------------------------------------------------ bounds
\* Script objects ever constructed in one run (by create_script or load).
MaxScripts == 3
\* Signal emissions in one run.
MaxEmitted == 3
\* Length of Session.nodes.
MaxNodes == 2
\* Entries of project['scripts'] in a loaded project.
MaxProjectScripts == 2
\* post calls per producer on the threading bridge.
MaxPosts == 2

\* ------------------------------------------------------------ input domains
Titles == {"", "A", "B"}
NodeClasses == {"NodeA", "NodeB"}
\* "logger" overrides get_state/set_state to keep a state; "noop" inherits
\* the bodies of AddOn unchanged.
AddonNames == {"logger", "noop"}
InheritingAddons == {"noop"}
EmptyState == "{}"
AddonStates == {EmptyState, "{level: info}"}
Callers == {"driver", "node"}
\* Worker contexts posting on the threading bridge.
Producers == {"w1", "w2", "w3"}

VARIABLES
    init_raised,      \* exception raised by Session.__init__, "None" if none
    threaded,         \* Session.threaded
    gui_parent,       \* Session.gui_parent: "None" or "widget"
    threading_bridge, \* Session.threading_bridge: "None" or "bridge"
    scripts,          \* Session.scripts: sequence of Script objects (ids)
    nodes,            \* Session.nodes: sequence of node classes
    title,            \* title[i]: Script.title of the i-th Script constructed
    emitted,          \* emissions of new_script_created / script_renamed /
                      \* script_deleted, in order, each with its argument
    emit_view,        \* Session.scripts and the titles as they were at the
                      \* moment of the last emission
    load_pc,          \* position of Session.load: "idle" or "loop"
    load_project,     \* the argument of the load in progress
    load_i,           \* index of the next entry of project['scripts']
    last,             \* the last call: operation, arguments, outcome and the
                      \* state it started from
    addons,           \* addon registry: registered names, registration order
    addon_state,      \* state kept by each addon
    access_blocked,   \* inside begin_restore() .. end_restore()
    blocked_seen,     \* names whose resolve was refused in a restore window
    restore_pending,  \* for each set_state invocation so far, the number of
                      \* scripts the load in progress had still to append
    bridge_queue,     \* events posted on the bridge and not yet delivered
    bridge_posted,    \* every event posted, in the order of the post calls
    bridge_delivered, \* events delivered on the presentation context
    posts             \* posts[p]: number of post calls producer p has made

sessionVars == <<init_raised, threaded, gui_parent, threading_bridge>>
scriptVars == <<scripts, title, emitted, emit_view>>
loadVars == <<load_pc, load_project, load_i>>
addonVars == <<addons, addon_state, access_blocked, blocked_seen, restore_pending>>
bridgeVars == <<bridge_queue, bridge_posted, bridge_delivered, posts>>
vars == <<sessionVars, scriptVars, nodes, loadVars, last, addonVars, bridgeVars>>

\* ------------------------------------------------------------------ helpers
Range(s) == {s[i] : i \in 1..Len(s)}

SeqsUpTo(S, n) == UNION {[1..k -> S] : k \in 0..n}

\* list.remove(x): drops the first element equal to x.
RECURSIVE Remove(_, _)
Remove(s, x) ==
    IF s = <<>> THEN <<>>
    ELSE IF Head(s) = x THEN Tail(s)
    ELSE <<Head(s)>> \o Remove(Tail(s), x)

\* A Python dict read as a project: the keys it has, and the values under
\* 'scripts' (a list of script configs) and 'addons' (name -> state, in
\* insertion order). A value whose key is absent is left empty.
ScriptConfigs == [title : Titles]
ProjectAddons ==
    { <<>>,
      <<[name |-> "logger", state |-> "{level: info}"]>>,
      <<[name |-> "noop", state |-> "{level: info}"],
        [name |-> "logger", state |-> "{level: info}"]>> }
ProjectsOver(configs) ==
    { p \in [keys : SUBSET {"scripts", "addons"},
             scripts : SeqsUpTo(configs, MaxProjectScripts),
             addons : ProjectAddons] :
        /\ ("scripts" \notin p.keys => p.scripts = <<>>)
        /\ ("addons" \notin p.keys => p.addons = <<>>) }
\* The projects loaded where no addon is registered hold no addon states;
\* those loaded next to the addon registry hold scripts of one title.
Projects == {p \in ProjectsOver(ScriptConfigs) : p.addons = <<>>}
AddonProjects == ProjectsOver({[title |-> "A"]})
NoProject == [keys |-> {}, scripts |-> <<>>, addons |-> <<>>]

\* What a call records: its name, arguments and outcome, and the state it
\* started from.
Call(op, script, arg, raised, ret) ==
    [op |-> op, script |-> script, arg |-> arg, raised |-> raised, ret |-> ret,
     pre_scripts |-> scripts, pre_title |-> title, pre_emitted |-> emitted,
     pre_nodes |-> nodes, pre_addons |-> addons, pre_addon_state |-> addon_state,
     pre_blocked |-> access_blocked]

\* ------------------------------------------------------------ construction
\* Session.__init__(threaded, gui_parent): with threaded and no gui_parent,
\* gui_parent.thread() raises AttributeError and no session comes to exist.
Init ==
    /\ threaded \in BOOLEAN
    /\ gui_parent \in {"None", "widget"}
    /\ threading_bridge = IF threaded THEN "bridge" ELSE "None"
    /\ init_raised = IF threaded /\ gui_parent = "None" THEN "AttributeError" ELSE "None"
    /\ scripts = <<>>
    /\ nodes = <<>>
    /\ title = <<>>
    /\ emitted = <<>>
    /\ emit_view = [scripts |-> <<>>, title |-> <<>>]
    /\ load_pc = "idle"
    /\ load_project = NoProject
    /\ load_i = 0
    /\ last = [op |-> "__init__", script |-> 0, arg |-> "None",
               raised |-> init_raised, ret |-> "None",
               pre_scripts |-> <<>>, pre_title |-> <<>>, pre_emitted |-> <<>>,
               pre_nodes |-> <<>>, pre_addons |-> <<>>,
               pre_addon_state |-> [a \in AddonNames |-> EmptyState],
               pre_blocked |-> FALSE]
    /\ addons = <<>>
    /\ addon_state = [a \in AddonNames |-> EmptyState]
    /\ access_blocked = FALSE
    /\ blocked_seen = {}
    /\ restore_pending = {}
    /\ bridge_queue = <<>>
    /\ bridge_posted = <<>>
    /\ bridge_delivered = <<>>
    /\ posts = [p \in Producers |-> 0]

\* The session exists and its owning context is not inside another call.
Ready == init_raised = "None" /\ load_pc = "idle"

\* -------------------------------------------------------------------- AddOn
\* AddOn.get_state returns {} and AddOn.set_state does nothing; an addon
\* that overrides them returns, resp. takes over, the state it keeps.
get_state(st, a) ==
    IF a \in InheritingAddons THEN EmptyState ELSE st[a]

set_state(st, a, state) ==
    IF a \in InheritingAddons THEN st ELSE [st EXCEPT ![a] = state]

\* Scripts the load in progress has still to append.
LoadPending ==
    IF load_pc = "loop" THEN Len(load_project.scripts) - (load_i - 1) ELSE 0

\* ------------------------------------------------------------------ Script
\* Script(session, title=...) and Script(session, content_data=config) build
\* a Script with the given title, resp. the title its config holds;
\* Script.serialize() returns the config of the Script.
ScriptFromTitle(t) == t
ScriptFromConfig(config) == config.title
ScriptSerialize(t) == [title |-> t]

\* Signal.emit(script)
Emit(signal, script) == [signal |-> signal, script |-> script]

\* ------------------------------------------------------- script operations
\* create_script that emits before it appends the new script.
create_script_emitting_first(t) ==
    /\ Ready
    /\ Len(title) < MaxScripts
    /\ Len(emitted) < MaxEmitted
    /\ LET script == Len(title) + 1 IN
        /\ title' = Append(title, ScriptFromTitle(t))
        /\ emitted' = Append(emitted, Emit("new_script_created", script))
        /\ emit_view' = [scripts |-> scripts, title |-> title']
        /\ scripts' = Append(scripts, script)
        /\ last' = Call("create_script", script, t, "None", script)
    /\ UNCHANGED <<sessionVars, nodes, loadVars, addonVars, bridgeVars>>

\* create_script that puts the new script at the front of the list.
create_script_prepending(t) ==
    /\ Ready
    /\ Len(title) < MaxScripts
    /\ Len(emitted) < MaxEmitted
    /\ LET script == Len(title) + 1 IN
        /\ title' = Append(title, ScriptFromTitle(t))
        /\ scripts' = <<script>> \o scripts
        /\ emitted' = Append(emitted, Emit("new_script_created", script))
        /\ emit_view' = [scripts |-> scripts', title |-> title']
        /\ last' = Call("create_script", script, t, "None", script)
    /\ UNCHANGED <<sessionVars, nodes, loadVars, addonVars, bridgeVars>>

create_script(t) ==
    /\ Ready
    /\ Len(title) < MaxScripts
    /\ Len(emitted) < MaxEmitted
    /\ LET script == Len(title) + 1 IN
        /\ title' = Append(title, ScriptFromTitle(t))
        /\ scripts' = Append(scripts, script)
        /\ emitted' = Append(emitted, Emit("new_script_created", script))
        /\ emit_view' = [scripts |-> scripts', title |-> title']
        /\ last' = Call("create_script", script, t, "None", script)
    /\ UNCHANGED <<sessionVars, nodes, loadVars, addonVars, bridgeVars>>

\* _load_script that skips a config whose title a script of the session
\* holds already.
load_script_checked(s, config) ==
    IF \E i \in 1..Len(s.scripts) : s.title[s.scripts[i]] = ScriptFromConfig(config)
    THEN [scripts |-> s.scripts, title |-> s.title, emitted |-> s.emitted,
          emit_view |-> [scripts |-> s.scripts, title |-> s.title]]
    ELSE LET script == Len(s.title) + 1
             appended == Append(s.scripts, script)
             titles == Append(s.title, ScriptFromConfig(config))
         IN  [scripts |-> appended,
              title |-> titles,
              emitted |-> Append(s.emitted, Emit("new_script_created", script)),
              emit_view |-> [scripts |-> appended, title |-> titles]]

\* _load_script(config), on the session state s = [scripts, title, emitted]
load_script(s, config) ==
    LET script == Len(s.title) + 1
        appended == Append(s.scripts, script)
        titles == Append(s.title, ScriptFromConfig(config))
    IN
    [scripts |-> appended,
     title |-> titles,
     emitted |-> Append(s.emitted, Emit("new_script_created", script)),
     emit_view |-> [scripts |-> appended, title |-> titles]]

\* rename_script that finds the script by its title and so renames every
\* script that holds the same title.
rename_script_by_title(script, t) ==
    /\ Ready
    /\ script \in 1..Len(title)
    /\ Len(emitted) < MaxEmitted
    /\ title' = [i \in 1..Len(title) |-> IF title[i] = title[script] THEN t ELSE title[i]]
    /\ emitted' = Append(emitted, Emit("script_renamed", script))
    /\ emit_view' = [scripts |-> scripts, title |-> title']
    /\ last' = Call("rename_script", script, t, "None", "None")
    /\ UNCHANGED <<sessionVars, scripts, nodes, loadVars, addonVars, bridgeVars>>

rename_script(script, t) ==
    /\ Ready
    /\ script \in 1..Len(title)
    /\ Len(emitted) < MaxEmitted
    /\ title' = [title EXCEPT ![script] = t]
    /\ emitted' = Append(emitted, Emit("script_renamed", script))
    /\ emit_view' = [scripts |-> scripts, title |-> title']
    /\ last' = Call("rename_script", script, t, "None", "None")
    /\ UNCHANGED <<sessionVars, scripts, nodes, loadVars, addonVars, bridgeVars>>

check_new_script_title_validity(t) ==
    IF Len(t) = 0 THEN FALSE
    ELSE IF \E i \in 1..Len(scripts) : title[scripts[i]] = t THEN FALSE
    ELSE TRUE

call_check_new_script_title_validity(t) ==
    /\ Ready
    /\ last' = Call("check_new_script_title_validity", 0, t, "None",
                    check_new_script_title_validity(t))
    /\ UNCHANGED <<sessionVars, scriptVars, nodes, loadVars, addonVars, bridgeVars>>

\* delete_script with the removal guarded by a membership test, so that an
\* absent script raises nothing and is still announced as deleted.
delete_script_unchecked(script) ==
    /\ Ready
    /\ script \in 1..Len(title)
    /\ Len(emitted) < MaxEmitted
    /\ scripts' = Remove(scripts, script)
    /\ emitted' = Append(emitted, Emit("script_deleted", script))
    /\ emit_view' = [scripts |-> scripts', title |-> title]
    /\ last' = Call("delete_script", script, "None", "None", "None")
    /\ UNCHANGED <<sessionVars, title, nodes, loadVars, addonVars, bridgeVars>>

\* list.remove raises ValueError when the script is not in the list; the
\* emit after it is then not reached.
delete_script(script) ==
    /\ Ready
    /\ script \in 1..Len(title)
    /\ IF script \in Range(scripts)
       THEN /\ Len(emitted) < MaxEmitted
            /\ scripts' = Remove(scripts, script)
            /\ emitted' = Append(emitted, Emit("script_deleted", script))
            /\ emit_view' = [scripts |-> scripts', title |-> title]
            /\ last' = Call("delete_script", script, "None", "None", "None")
       ELSE /\ last' = Call("delete_script", script, "None", "ValueError", "None")
            /\ UNCHANGED <<scripts, emitted, emit_view>>
    /\ UNCHANGED <<sessionVars, title, nodes, loadVars, addonVars, bridgeVars>>

\* ---------------------------------------------------------- node registry
register_node(node_class) ==
    /\ Ready
    /\ Len(nodes) < MaxNodes
    /\ nodes' = Append(nodes, node_class)
    /\ last' = Call("register_node", 0, node_class, "None", "None")
    /\ UNCHANGED <<sessionVars, scriptVars, loadVars, addonVars, bridgeVars>>

\* for n in node_classes: self.register_node(n)
register_nodes(node_classes) ==
    /\ Ready
    /\ Len(nodes) + Len(node_classes) <= MaxNodes
    /\ nodes' = nodes \o node_classes
    /\ last' = Call("register_nodes", 0, node_classes, "None", "None")
    /\ UNCHANGED <<sessionVars, scriptVars, loadVars, addonVars, bridgeVars>>

\* ------------------------------------------------------- load and serialize
\* load that empties the session before it looks at the project.
load_clearing(project) ==
    /\ Ready
    /\ Len(title) + Len(project.scripts) <= MaxScripts
    /\ Len(emitted) + Len(project.scripts) <= MaxEmitted
    /\ scripts' = <<>>
    /\ IF "scripts" \notin project.keys
       THEN /\ last' = Call("load", 0, project, "None", "False")
            /\ UNCHANGED loadVars
       ELSE /\ last' = Call("load", 0, project, "None", "running")
            /\ load_pc' = "loop"
            /\ load_project' = project
            /\ load_i' = 1
    /\ UNCHANGED <<sessionVars, title, emitted, emit_view, nodes, addonVars, bridgeVars>>

\* load(project), up to the first iteration of its loop: returns False when
\* the project has no 'scripts' key.
load(project) ==
    /\ Ready
    /\ Len(title) + Len(project.scripts) <= MaxScripts
    /\ Len(emitted) + Len(project.scripts) <= MaxEmitted
    /\ IF "scripts" \notin project.keys
       THEN /\ last' = Call("load", 0, project, "None", "False")
            /\ UNCHANGED loadVars
       ELSE /\ last' = Call("load", 0, project, "None", "running")
            /\ load_pc' = "loop"
            /\ load_project' = project
            /\ load_i' = 1
    /\ UNCHANGED <<sessionVars, scriptVars, nodes, addonVars, bridgeVars>>

\* A loop that hands the project's addon states to the registered addons
\* while it is still loading scripts.
load_loop_restoring ==
    /\ init_raised = "None"
    /\ load_pc = "loop"
    /\ load_i <= Len(load_project.scripts)
    /\ LET s == load_script([scripts |-> scripts, title |-> title, emitted |-> emitted],
                            load_project.scripts[load_i]) IN
        /\ scripts' = s.scripts
        /\ title' = s.title
        /\ emitted' = s.emitted
        /\ emit_view' = s.emit_view
    /\ load_i' = load_i + 1
    /\ IF \E k \in 1..Len(load_project.addons) : load_project.addons[k].name \in Range(addons)
       THEN LET k == CHOOSE k \in 1..Len(load_project.addons) :
                        load_project.addons[k].name \in Range(addons) IN
            /\ addon_state' = set_state(addon_state, load_project.addons[k].name,
                                        load_project.addons[k].state)
            /\ restore_pending' = restore_pending \cup {LoadPending}
       ELSE UNCHANGED <<addon_state, restore_pending>>
    /\ UNCHANGED <<sessionVars, nodes, load_pc, load_project, last, addons,
                   access_blocked, blocked_seen, bridgeVars>>

\* One iteration of "for s in project['scripts']: self._load_script(config=s)"
load_loop ==
    /\ init_raised = "None"
    /\ load_pc = "loop"
    /\ load_i <= Len(load_project.scripts)
    /\ LET s == load_script([scripts |-> scripts, title |-> title, emitted |-> emitted],
                            load_project.scripts[load_i]) IN
        /\ scripts' = s.scripts
        /\ title' = s.title
        /\ emitted' = s.emitted
        /\ emit_view' = s.emit_view
    /\ load_i' = load_i + 1
    /\ UNCHANGED <<sessionVars, nodes, load_pc, load_project, last, addonVars, bridgeVars>>

\* The loop is exhausted and load falls off its end: it returns None.
load_return ==
    /\ init_raised = "None"
    /\ load_pc = "loop"
    /\ load_i > Len(load_project.scripts)
    /\ load_pc' = "idle"
    /\ load_project' = NoProject
    /\ load_i' = 0
    /\ last' = [last EXCEPT !.ret = "None"]
    /\ UNCHANGED <<sessionVars, scriptVars, nodes, addonVars, bridgeVars>>

\* load(project) from call to return, on the session state
\* s = [scripts, title, emitted]
RECURSIVE load_all(_, _, _)
load_all(s, configs, i) ==
    IF i > Len(configs) THEN s
    ELSE load_all(load_script(s, configs[i]), configs, i + 1)

Loaded(s, project) ==
    IF "scripts" \notin project.keys THEN s ELSE load_all(s, project.scripts, 1)

\* serialize() of a session with the given scripts and titles
serialize(ss, tt) ==
    [scripts |-> [i \in 1..Len(ss) |-> ScriptSerialize(tt[ss[i]])]]

call_serialize ==
    /\ Ready
    /\ last' = Call("serialize", 0, "None", "None", serialize(scripts, title))
    /\ UNCHANGED <<sessionVars, scriptVars, nodes, loadVars, addonVars, bridgeVars>>

\* Script.flow.nodes: the Node objects of a script's flow. Flows are built
\* and edited outside the session; the scripts of this model hold empty ones.
FlowNodes(script) == <<>>

\* all_nodes(): the nodes of the flows of all scripts, script by script
RECURSIVE all_nodes(_)
all_nodes(ss) ==
    IF ss = <<>> THEN <<>> ELSE FlowNodes(Head(ss)) \o all_nodes(Tail(ss))

call_all_nodes ==
    /\ Ready
    /\ last' = Call("all_nodes", 0, "None", "None", all_nodes(scripts))
    /\ UNCHANGED <<sessionVars, scriptVars, nodes, loadVars, addonVars, bridgeVars>>

\* ------------------------------------------------------------ addon registry
\* register that takes an addon whatever its name, a fresh instance taking
\* the place of the one registered under the name.
register_overwriting(a) ==
    /\ Ready
    /\ addons' = Append(addons, a)
    /\ addon_state' = [addon_state EXCEPT ![a] = EmptyState]
    /\ last' = Call("register", 0, a, "None", "None")
    /\ UNCHANGED <<sessionVars, scriptVars, nodes, loadVars,
                   access_blocked, blocked_seen, restore_pending, bridgeVars>>

\* register(addon): DuplicateAddonError when the name is registered already.
register(a) ==
    /\ Ready
    /\ IF a \in Range(addons)
       THEN /\ last' = Call("register", 0, a, "DuplicateAddonError", "None")
            /\ UNCHANGED addons
       ELSE /\ addons' = Append(addons, a)
            /\ last' = Call("register", 0, a, "None", "None")
    /\ UNCHANGED <<sessionVars, scriptVars, nodes, loadVars, addon_state,
                   access_blocked, blocked_seen, restore_pending, bridgeVars>>

begin_restore ==
    /\ Ready
    /\ ~access_blocked
    /\ access_blocked' = TRUE
    /\ blocked_seen' = {}
    /\ last' = Call("begin_restore", 0, "None", "None", "None")
    /\ UNCHANGED <<sessionVars, scriptVars, nodes, loadVars, addons, addon_state,
                   restore_pending, bridgeVars>>

end_restore ==
    /\ Ready
    /\ access_blocked
    /\ access_blocked' = FALSE
    /\ last' = Call("end_restore", 0, "None", "None", "None")
    /\ UNCHANGED <<sessionVars, scriptVars, nodes, loadVars, addons, addon_state,
                   blocked_seen, restore_pending, bridgeVars>>

\* restore(name, state), inside the window: UnknownAddonError when the name
\* is not registered, else the addon's set_state(state).
restore(a, state) ==
    /\ Ready
    /\ access_blocked
    /\ IF a \notin Range(addons)
       THEN /\ last' = Call("restore", 0, [name |-> a, state |-> state],
                            "UnknownAddonError", "None")
            /\ UNCHANGED <<addon_state, restore_pending>>
       ELSE /\ addon_state' = set_state(addon_state, a, state)
            /\ restore_pending' = restore_pending \cup {LoadPending}
            /\ last' = Call("restore", 0, [name |-> a, state |-> state], "None", "None")
    /\ UNCHANGED <<sessionVars, scriptVars, nodes, loadVars, addons, access_blocked,
                   blocked_seen, bridgeVars>>

\* resolve that looks the name up without regard to the window.
resolve_unblocked(a, caller) ==
    /\ Ready
    /\ IF a \notin Range(addons)
       THEN last' = Call("resolve", 0, [name |-> a, caller |-> caller],
                         "UnknownAddonError", "None")
       ELSE last' = Call("resolve", 0, [name |-> a, caller |-> caller], "None", a)
    /\ UNCHANGED <<sessionVars, scriptVars, nodes, loadVars, addonVars, bridgeVars>>

\* resolve(name) by the restore driver or by node code: refused for every
\* caller but the driver while the window is open.
resolve(a, caller) ==
    /\ Ready
    /\ IF access_blocked /\ caller # "driver"
       THEN /\ last' = Call("resolve", 0, [name |-> a, caller |-> caller],
                            "AddonAccessBlockedError", "None")
            /\ blocked_seen' = blocked_seen \cup {a}
       ELSE IF a \notin Range(addons)
       THEN /\ last' = Call("resolve", 0, [name |-> a, caller |-> caller],
                            "UnknownAddonError", "None")
            /\ UNCHANGED blocked_seen
       ELSE /\ last' = Call("resolve", 0, [name |-> a, caller |-> caller], "None", a)
            /\ UNCHANGED blocked_seen
    /\ UNCHANGED <<sessionVars, scriptVars, nodes, loadVars, addons, addon_state,
                   access_blocked, restore_pending, bridgeVars>>

\* snapshot() of a registry: name -> get_state(), in registration order
snapshot(names, st) ==
    [i \in 1..Len(names) |-> [name |-> names[i], state |-> get_state(st, names[i])]]

call_snapshot ==
    /\ Ready
    /\ ~access_blocked
    /\ last' = Call("snapshot", 0, "None", "None", snapshot(addons, addon_state))
    /\ UNCHANGED <<sessionVars, scriptVars, nodes, loadVars, addonVars, bridgeVars>>

\* --------------------------------------------------------- threading bridge
\* post(event) from a worker context: enqueues and returns.
post(p) ==
    /\ init_raised = "None"
    /\ threading_bridge = "bridge"
    /\ posts[p] < MaxPosts
    /\ LET event == [producer |-> p, payload |-> posts[p] + 1] IN
        /\ bridge_queue' = Append(bridge_queue, event)
        /\ bridge_posted' = Append(bridge_posted, event)
    /\ posts' = [posts EXCEPT ![p] = @ + 1]
    /\ UNCHANGED <<sessionVars, scriptVars, nodes, loadVars, last, addonVars,
                   bridge_delivered>>

\* A presentation context that takes the newest pending event first.
deliver_newest ==
    /\ init_raised = "None"
    /\ bridge_queue # <<>>
    /\ bridge_delivered' = Append(bridge_delivered, bridge_queue[Len(bridge_queue)])
    /\ bridge_queue' = SubSeq(bridge_queue, 1, Len(bridge_queue) - 1)
    /\ UNCHANGED <<sessionVars, scriptVars, nodes, loadVars, last, addonVars,
                   bridge_posted, posts>>

\* The presentation context takes the oldest pending event and hands it to
\* the listeners.
deliver ==
    /\ init_raised = "None"
    /\ bridge_queue # <<>>
    /\ bridge_delivered' = Append(bridge_delivered, Head(bridge_queue))
    /\ bridge_queue' = Tail(bridge_queue)
    /\ UNCHANGED <<sessionVars, scriptVars, nodes, loadVars, last, addonVars,
                   bridge_posted, posts>>

\* ------------------------------------------------------------ specification
Next ==
    \/ \E t \in Titles : create_script(t)
    \/ \E i \in 1..MaxScripts, t \in Titles : rename_script(i, t)
    \/ \E i \in 1..MaxScripts : delete_script(i)
    \/ \E t \in Titles : call_check_new_script_title_validity(t)
    \/ \E n \in NodeClasses : register_node(n)
    \/ \E ns \in SeqsUpTo(NodeClasses, MaxNodes) : register_nodes(ns)
    \/ \E p \in Projects : load(p)
    \/ load_loop
    \/ load_return
    \/ call_serialize
    \/ call_all_nodes

Spec == Init /\ [][Next]_vars

\* The addon registry next to load, serialize and the node registry.
NextAddon ==
    \/ \E a \in AddonNames : register(a)
    \/ begin_restore
    \/ \E a \in AddonNames, st \in AddonStates : restore(a, st)
    \/ end_restore
    \/ \E a \in AddonNames, c \in Callers : resolve(a, c)
    \/ call_snapshot
    \/ register_node("NodeA")
    \/ \E p \in AddonProjects : load(p)
    \/ load_loop
    \/ load_return
    \/ call_serialize

SpecAddon == Init /\ [][NextAddon]_vars

\* The threading bridge: worker contexts post, the presentation context's
\* event loop keeps delivering.
NextBridge ==
    \/ \E p \in Producers : post(p)
    \/ deliver

SpecBridge == Init /\ [][NextBridge]_vars /\ WF_vars(deliver)

\* ------------------------------------------------------------------- claims
\* Titles of the scripts of the registry ss under the titles tt, other than
\* those of the script x.
OtherTitles(ss, tt, x) == {tt[ss[i]] : i \in {j \in 1..Len(ss) : ss[j] # x}}

\* C1: whenever no call is in progress, no two distinct scripts of
\* session.scripts have the same title.
C1_TitleUniqueness ==
    load_pc = "idle" =>
        \A i, j \in 1..Len(scripts) :
            i # j => title[scripts[i]] # title[scripts[j]]

C3_RoundTrip ==
    (Ready /\ ~access_blocked) =>
        LET data == serialize(scripts, title)
            project == [keys |-> {"scripts"}, scripts |-> data.scripts, addons |-> <<>>]
            fresh == [scripts |-> <<>>, title |-> <<>>, emitted |-> <<>>]
            fresh_state == [a \in AddonNames |-> EmptyState]
            loaded == Loaded(fresh, project)
        IN  /\ serialize(loaded.scripts, loaded.title).scripts = data.scripts
            /\ snapshot(addons, fresh_state) = snapshot(addons, addon_state)

\* C4: create_script with an empty title or a title in use fails with
\* InvalidTitleError, scripts unchanged and nothing emitted; otherwise it
\* appends the new script and emits one new_script_created.
C4_CreateScriptTitleRule ==
    last.op = "create_script" =>
        IF last.arg = "" \/ last.arg \in OtherTitles(last.pre_scripts, last.pre_title, 0)
        THEN /\ last.raised = "InvalidTitleError"
             /\ scripts = last.pre_scripts
             /\ emitted = last.pre_emitted
        ELSE /\ last.raised = "None"
             /\ scripts = Append(last.pre_scripts, last.script)
             /\ title[last.script] = last.arg
             /\ emitted = Append(last.pre_emitted, Emit("new_script_created", last.script))

\* C5: rename_script fails with InvalidTitleError, title unchanged and
\* nothing emitted, when the new title is empty or the title of another
\* script; otherwise it sets the title and emits script_renamed.
C5_RenameScriptTitleRule ==
    last.op = "rename_script" =>
        IF last.arg = "" \/ last.arg \in OtherTitles(last.pre_scripts, last.pre_title, last.script)
        THEN /\ last.raised = "InvalidTitleError"
             /\ title = last.pre_title
             /\ emitted = last.pre_emitted
        ELSE /\ last.raised = "None"
             /\ title[last.script] = last.arg
             /\ emitted = Append(last.pre_emitted, Emit("script_renamed", last.script))

\* The exception by which the removal of an absent script fails: the
\* ValueError of list.remove.
NotFoundError == "ValueError"

C7_LoadMalformedAtomic ==
    (last.op = "load" /\ "scripts" \notin last.arg.keys) =>
        /\ last.ret = "False"
        /\ last.raised = "None"
        /\ load_pc = "idle"
        /\ scripts = last.pre_scripts
        /\ title = last.pre_title
        /\ emitted = last.pre_emitted
        /\ nodes = last.pre_nodes
        /\ addons = last.pre_addons

\* A project with addon states and no 'scripts' is loaded into a session
\* that holds scripts, node classes and addons.
C7_Witness ==
    /\ last.op = "load"
    /\ last.arg.keys = {"addons"}
    /\ last.arg.addons # <<>>
    /\ last.ret = "False"
    /\ scripts # <<>>
    /\ nodes # <<>>
    /\ addons # <<>>

\* C8: a resolve by a caller other than the restore driver between
\* begin_restore and end_restore fails with AddonAccessBlockedError and
\* returns no addon; outside the window the resolve of a registered addon
\* returns it.
C8_AccessBlocking ==
    last.op = "resolve" =>
        /\ (last.pre_blocked /\ last.arg.caller # "driver") =>
               (last.raised = "AddonAccessBlockedError" /\ last.ret = "None")
        /\ (~last.pre_blocked /\ last.arg.name \in Range(last.pre_addons)) =>
               (last.raised = "None" /\ last.ret = last.arg.name)

\* Node code resolves, after end_restore, the addon it was refused in the
\* window.
C8_Witness ==
    /\ last.op = "resolve"
    /\ last.arg.caller = "node"
    /\ last.arg.name \in blocked_seen
    /\ ~last.pre_blocked
    /\ last.ret = last.arg.name

\* Every event a producer can post.
Events == [producer : Producers, payload : 1..MaxPosts]

\* C9: at every moment the events delivered, followed by those pending, are
\* the events posted in the order of the post calls (nothing lost, doubled
\* or reordered), and every event posted is delivered.
C9_BridgeOrder ==
    /\ [](bridge_delivered \o bridge_queue = bridge_posted)
    /\ \A e \in Events :
           (e \in Range(bridge_posted)) ~> (e \in Range(bridge_delivered))

\* The three producers have posted all their events, interleaved, and all
\* are delivered.
C9_Witness ==
    /\ \A p \in Producers : posts[p] = MaxPosts
    /\ bridge_delivered = bridge_posted
    /\ \E i \in 1..(Len(bridge_posted) - 2) :
           /\ bridge_posted[i].producer # bridge_posted[i + 1].producer
           /\ bridge_posted[i + 1].producer # bridge_posted[i + 2].producer
           /\ bridge_posted[i].producer # bridge_posted[i + 2].producer

SignalOf(op) ==
    IF op = "create_script" THEN "new_script_created"
    ELSE IF op = "rename_script" THEN "script_renamed"
    ELSE "script_deleted"

\* C10: the notification of a successful create, rename or delete carries
\* the affected script; in a threaded session it is posted on the threading
\* bridge, in a session that is not threaded it is emitted inside the call.
C10_NotificationRouting ==
    (last.op \in {"create_script", "rename_script", "delete_script"} /\ last.raised = "None") =>
        LET event == Emit(SignalOf(last.op), last.script) IN
        IF threaded
        THEN \E k \in 1..Len(bridge_posted) : bridge_posted[k].payload = event
        ELSE emitted = Append(last.pre_emitted, event)

\* C11: registering a node class that is registered already leaves the
\* registry as it was: no node class occurs twice in Session.nodes.
C11_IdempotentRegistration ==
    /\ \A i, j \in 1..Len(nodes) : i # j => nodes[i] # nodes[j]
    /\ (last.op = "register_node" /\ last.arg \in Range(last.pre_nodes)) =>
           nodes = last.pre_nodes

TitlesOf(ss, tt) == [i \in 1..Len(ss) |-> tt[ss[i]]]

\* C13: with the registry ['A','B'] a create of 'A' is rejected and leaves
\* ['A','B']; deleting 'A' leaves ['B']; renaming 'B' to 'A' then succeeds
\* and leaves ['A']. In general a title no script of the registry holds
\* (any more) is accepted by create and by rename.
C13_TitleFreedByDeletion ==
    /\ (last.op = "create_script" /\ last.arg = "A"
            /\ TitlesOf(last.pre_scripts, last.pre_title) = <<"A", "B">>) =>
           /\ last.raised = "InvalidTitleError"
           /\ TitlesOf(scripts, title) = <<"A", "B">>
    /\ (last.op = "delete_script" /\ last.raised = "None"
            /\ TitlesOf(last.pre_scripts, last.pre_title) = <<"A", "B">>
            /\ last.pre_title[last.script] = "A") =>
           TitlesOf(scripts, title) = <<"B">>
    /\ (last.op = "rename_script" /\ last.arg = "A"
            /\ TitlesOf(last.pre_scripts, last.pre_title) = <<"B">>) =>
           /\ last.raised = "None"
           /\ TitlesOf(scripts, title) = <<"A">>
    /\ (last.op \in {"create_script", "rename_script"} /\ last.arg # ""
            /\ last.arg \notin OtherTitles(last.pre_scripts, last.pre_title, last.script)) =>
           /\ last.raised = "None"
           /\ title[last.script] = last.arg

\* C14: register of a name that is registered already fails with
\* DuplicateAddonError and leaves the registry and the state of the addon
\* registered under the name as they were; no name is registered twice.
C14_AddonNamesUnique ==
    /\ \A i, j \in 1..Len(addons) : i # j => addons[i] # addons[j]
    /\ last.op = "register" =>
           IF last.arg \in Range(last.pre_addons)
           THEN /\ last.raised = "DuplicateAddonError"
                /\ addons = last.pre_addons
                /\ addon_state = last.pre_addon_state
           ELSE /\ last.raised = "None"
                /\ addons = Append(last.pre_addons, last.arg)

\* "logger" is registered again after it took a state, next to "noop".
C14_Witness ==
    /\ last.op = "register"
    /\ last.arg = "logger"
    /\ last.raised = "DuplicateAddonError"
    /\ addon_state["logger"] # EmptyState
    /\ Len(addons) = 2

\* The entries of project['addons'] whose name is not registered: their
\* restore fails with UnknownAddonError.
FailingEntries(project, names) ==
    {k \in 1..Len(project.addons) : project.addons[k].name \notin Range(names)}

\* C15: when a load whose project holds an addon entry that cannot be
\* restored, next to others, has returned, every other entry has been handed
\* to its addon's set_state, the scripts of the project are in the registry,
\* the result names the entries that failed, and the restore window is
\* closed.
C15_RestoreFailuresIsolated ==
    (/\ last.op = "load"
     /\ last.ret # "running"
     /\ {"scripts", "addons"} \subseteq last.arg.keys
     /\ ~last.pre_blocked
     /\ FailingEntries(last.arg, last.pre_addons) # {}
     /\ FailingEntries(last.arg, last.pre_addons) # 1..Len(last.arg.addons)) =>
        /\ \A k \in 1..Len(last.arg.addons) :
               k \notin FailingEntries(last.arg, last.pre_addons) =>
                   get_state(addon_state, last.arg.addons[k].name)
                       = get_state(set_state(last.pre_addon_state, last.arg.addons[k].name,
                                             last.arg.addons[k].state),
                                   last.arg.addons[k].name)
        /\ Len(scripts) = Len(last.pre_scripts) + Len(last.arg.scripts)
        /\ ~access_blocked
        /\ last.ret # "None"
        /\ last.ret.failed = {last.arg.addons[k].name : k \in FailingEntries(last.arg, last.pre_addons)}

\* Entries of project['scripts'] the load in progress, or the load that
\* returned last, has gone through.
LoadDone ==
    IF load_pc = "loop" THEN load_i - 1 ELSE Len(last.arg.scripts)

C17_LoadReturnsBoolean ==
    (last.op = "load" /\ last.ret # "running") =>
        /\ last.ret \in {"True", "False"}
        /\ last.ret = "False" <=> "scripts" \notin last.arg.keys
        /\ "scripts" \in last.arg.keys =>
               (last.ret = "True" /\ Len(scripts) = Len(last.pre_scripts) + Len(last.arg.scripts))

\* C18: for every combination of constructor arguments a session comes to
\* exist, with no script and no node class when fresh, and with a threading
\* bridge exactly if it is threaded, in every state.
C18_FreshSessionAndBridge ==
    /\ init_raised = "None"
    /\ last.op = "__init__" => (scripts = <<>> /\ nodes = <<>>)
    /\ threading_bridge = "bridge" <=> threaded

\* C19: every call adds to the emitted notifications exactly its own: one
\* new_script_created per create and per loaded entry, one script_renamed
\* per rename, one script_deleted per successful delete, nothing otherwise;
\* and at the moment of an emission the created script is in
\* session.scripts, the renamed script has its new title, the deleted
\* script is no longer in session.scripts.
C19_NotificationsMirrorMutations ==
    /\ last.op = "create_script" =>
           /\ emitted = Append(last.pre_emitted, Emit("new_script_created", last.script))
           /\ last.script \in Range(emit_view.scripts)
    /\ last.op = "rename_script" =>
           /\ emitted = Append(last.pre_emitted, Emit("script_renamed", last.script))
           /\ emit_view.title[last.script] = last.arg
    /\ (last.op = "delete_script" /\ last.raised = "None") =>
           /\ emitted = Append(last.pre_emitted, Emit("script_deleted", last.script))
           /\ last.script \notin Range(emit_view.scripts)
    /\ (last.op = "load" /\ "scripts" \in last.arg.keys) =>
           /\ emitted = last.pre_emitted
                  \o [k \in 1..LoadDone |->
                         Emit("new_script_created", Len(last.pre_title) + k)]
           /\ LoadDone > 0 => (Len(last.pre_title) + LoadDone) \in Range(emit_view.scripts)
    /\ (\/ last.op \notin {"create_script", "rename_script", "delete_script", "load"}
        \/ last.raised # "None"
        \/ (last.op = "load" /\ "scripts" \notin last.arg.keys)) =>
           emitted = last.pre_emitted

\* A script was created, renamed and deleted: the three notifications were
\* emitted in that order.
C19_Witness ==
    /\ last.op = "delete_script"
    /\ last.raised = "None"
    /\ Len(emitted) = 3
    /\ emitted[1].signal = "new_script_created"
    /\ emitted[2].signal = "script_renamed"
    /\ emitted[3].signal = "script_deleted"

====
